---------------------------- MODULE Spec2Model ----------------------------
(***************************************************************************)
(* Notification decision engine (src/utils/notificationDecisionEngine.ts)  *)
(* and its dispatcher (src/hooks/useNotificationScheduler.ts).             *)
(*                                                                         *)
(* Dates are local wall-clock instants in milliseconds since local         *)
(* midnight of day 0 (Date.getTime() shifted by a constant); no DST.       *)
(* A "HH:MM" string is carried as the pair the code parses it into with    *)
(* split(':').map(Number): a record [h, m].                                *)
(* frequencyMultiplier takes the values of the settings slider, 0.5 .. 2   *)
(* in steps of 0.25, and is carried in quarters (fmQ = 4 * multiplier).    *)
(***************************************************************************)
EXTENDS Integers, Sequences, FiniteSets, TLC

VARIABLES
    cpc,        \* engine harness: "idle" | "done"
    cin,        \* engine harness: the inputs of the last invocation
    cout,       \* engine harness: the notifications it returned
    clock,                  \* dispatcher: the wall clock
    tasks,                  \* the `tasks` prop: task id -> Task, for the ids present
    previousTasks,          \* previousTasksRef.current
    storedIds,              \* localStorage taskNotificationIds: task id -> handles
    scheduledTaskIds,       \* scheduledTaskIdsRef.current
    overdueReminderCounts,  \* overdueReminderCountsRef.current
    lastSmartSchedule,      \* lastSmartScheduleRef.current
    lastReset,              \* localStorage overdueCountsLastReset
    sink,                   \* delivery sink: the pending notifications
    nextId,                 \* delivery sink: the next handle it hands out
    procs,                  \* async calls of the dispatcher suspended at an await
    updates,                \* number of task-list updates so far
    ticks,                  \* number of timer ticks so far
    submittedOverdue,       \* history: overdue notifications submitted today, per task
    cancelMatches,          \* delivery sink: the field cancelAllOfType compares
    lastUpdate,             \* history: the per-task calls of the step just taken, if
                            \* it was a task-list update, and the snapshots before it
    failures                \* history: the calls the delivery sink has failed

cvars == <<cpc, cin, cout>>
dvars == <<clock, tasks, previousTasks, storedIds, scheduledTaskIds,
           overdueReminderCounts, lastSmartSchedule, lastReset, sink, nextId,
           procs, updates, ticks, submittedOverdue, cancelMatches, lastUpdate,
           failures>>
vars  == <<cvars, dvars>>

-----------------------------------------------------------------------------
(* Date arithmetic *)

MinuteMs == 60 * 1000
HourMs   == 60 * MinuteMs
DayMs    == 24 * HourMs

\* null / undefined of a nullable number (due_date, estimated_duration)
NULL == 0 - 1

getHours(d)   == (d \div HourMs) % 24
getMinutes(d) == (d \div MinuteMs) % 60
\* Date.setHours(h, m, 0, 0): same local day, given time of day
setHours(d, h, m) == (d \div DayMs) * DayMs + h * HourMs + m * MinuteMs
\* Date.setDate(getDate() + 1)
addDay(d) == d + DayMs

At(day, h, m) == day * DayMs + h * HourMs + m * MinuteMs
HM(h, m) == [h |-> h, m |-> m]

-----------------------------------------------------------------------------
(* Time-window utilities *)

hasSpecificTime(dueDate) ==
    ~(getHours(dueDate) = 0 /\ getMinutes(dueDate) = 0)

getPeakEnergyHours(preference) ==
    CASE preference = "morning"   -> [start |-> 8,  end |-> 12]
      [] preference = "afternoon" -> [start |-> 12, end |-> 17]
      [] preference = "evening"   -> [start |-> 17, end |-> 21]
      [] OTHER                    -> [start |-> 9,  end |-> 12]

\* !durationMinutes is true for null, undefined and 0
getLeadTimeForDuration(durationMinutes) ==
    IF durationMinutes = NULL \/ durationMinutes = 0 THEN 15
    ELSE IF durationMinutes >= 120 THEN 30
    ELSE IF durationMinutes >= 60 THEN 20
    ELSE IF durationMinutes <= 30 THEN 10
    ELSE 15

\* the window read as start..end even when start > end
isInQuietHoursNoWrap(date, prefs) ==
    LET timeValue  == getHours(date) * 60 + getMinutes(date)
        quietStart == prefs.quietHoursStart.h * 60 + prefs.quietHoursStart.m
        quietEnd   == prefs.quietHoursEnd.h * 60 + prefs.quietHoursEnd.m
    IN  timeValue >= quietStart /\ timeValue <= quietEnd

isInQuietHours(date, prefs) ==
    LET timeValue  == getHours(date) * 60 + getMinutes(date)
        quietStart == prefs.quietHoursStart.h * 60 + prefs.quietHoursStart.m
        quietEnd   == prefs.quietHoursEnd.h * 60 + prefs.quietHoursEnd.m
    IN  IF quietStart > quietEnd
        THEN timeValue >= quietStart \/ timeValue <= quietEnd
        ELSE timeValue >= quietStart /\ timeValue <= quietEnd

adjustToWorkHours(date, profile, isWorkTask) ==
    IF ~isWorkTask THEN date
    ELSE LET startHour == profile.work_hours_start.h
             startMin  == profile.work_hours_start.m
             endHour   == profile.work_hours_end.h
             endMin    == profile.work_hours_end.m
             hour      == getHours(date)
         IN  IF hour < startHour THEN setHours(date, startHour, startMin)
             ELSE IF hour > endHour THEN setHours(date, endHour, endMin)
             ELSE date

-----------------------------------------------------------------------------
(* Content generator *)

\* Math.floor of a quotient, also for negative numerators
Floor(a, b) == IF a >= 0 THEN a \div b ELSE -((-a + b - 1) \div b)

Abs(x) == IF x < 0 THEN -x ELSE x

\* The rendered string `Due in N unit(s)` / `Due N unit(s) ago` / 'Due now',
\* as the parts that make it up.
TimeText(kind, n, unit) ==
    [kind |-> kind, n |-> n, unit |-> IF n > 1 THEN unit \o "s" ELSE unit]

NoTimeRemaining == [kind |-> "undefined", n |-> 0, unit |-> ""]

formatTimeRemaining(targetDate, fromDate) ==
    LET diffMs    == targetDate - fromDate
        diffMins  == Floor(diffMs, MinuteMs)
        diffHours == Floor(diffMins, 60)
        diffDays  == Floor(diffHours, 24)
    IN  IF diffMins < 0
        THEN LET overdueMins  == Abs(diffMins)
                 overdueHours == overdueMins \div 60
                 overdueDays  == overdueHours \div 24
             IN  IF overdueDays > 0 THEN TimeText("ago", overdueDays, "day")
                 ELSE IF overdueHours > 0 THEN TimeText("ago", overdueHours, "hour")
                 ELSE TimeText("ago", overdueMins, "minute")
        ELSE IF diffDays > 0 THEN TimeText("in", diffDays, "day")
        ELSE IF diffHours > 0 THEN TimeText("in", diffHours, "hour")
        ELSE IF diffMins > 0 THEN TimeText("in", diffMins, "minute")
        ELSE [kind |-> "now", n |-> 0, unit |-> ""]

\* A content record; body is the template used and the values put into it.
Content(taskTitle, title, bodyText, bodyTime, bodyN, urgencyLevel, timeRemaining, actionText) ==
    [taskTitle |-> taskTitle, title |-> title,
     body |-> [text |-> bodyText, time |-> bodyTime, n |-> bodyN],
     urgencyLevel |-> urgencyLevel,
     timeRemaining |-> timeRemaining,
     actionText |-> actionText]

\* The switch over priority and type of generateNotificationContent, with
\* timeRemaining already computed; hasTime is the truthiness of timeRemaining.
contentByPriority(task, type, hasTime, existingOverdueReminders, timeRemaining) ==
        IF task.priority = "high" THEN
            CASE type = "advance-notice" ->
                   Content(task.title, "High priority task due soon!", "<title> - <time>",
                           timeRemaining, 0, "urgent", timeRemaining, "Plan now")
              [] type = "reminder" ->
                   Content(task.title, "High priority: <title>",
                           IF hasTime THEN "<time>" ELSE "Action required",
                           timeRemaining, 0, "urgent", timeRemaining, "Start now")
              [] type = "final-reminder" ->
                   Content(task.title, "Starting Soon: <title>",
                           "<time> - This needs your attention now!",
                           timeRemaining, 0, "urgent", timeRemaining, "Start immediately")
              [] type = "overdue" ->
                   Content(task.title, "Ready to tackle this?",
                           "<title> - <time>. Reminder <n> of 3.",
                           timeRemaining, existingOverdueReminders + 1,
                           "overdue", timeRemaining, "Complete now")
              [] OTHER ->
                   Content(task.title, "High Priority: <title>",
                           "Consider tackling this during your peak energy time",
                           NoTimeRemaining, 0, "urgent", NoTimeRemaining, "View task")
        ELSE IF task.priority = "medium" THEN
            CASE type = "reminder" ->
                   Content(task.title, "Reminder: <title>",
                           IF hasTime THEN "<time>" ELSE "Scheduled for today",
                           timeRemaining, 0, "normal", timeRemaining, "View")
              [] type = "overdue" ->
                   Content(task.title, "Ready to tackle this?", "<title> - <time>",
                           timeRemaining, 0, "overdue", timeRemaining, "Complete")
              [] OTHER ->
                   Content(task.title, "<title>",
                           IF hasTime THEN "<time>" ELSE "Task reminder",
                           timeRemaining, 0, "normal", timeRemaining, "")
        ELSE Content(task.title, "<title>",
                     IF hasTime THEN "<time>" ELSE "Task reminder",
                     timeRemaining, 0, "low", timeRemaining, "")

\* wallClock is the value of the `new Date()` that formatTimeRemaining's
\* default parameter samples while the content is generated.
generateNotificationContent(task, type, dueDate, existingOverdueReminders, wallClock) ==
    contentByPriority(task, type, dueDate # NULL, existingOverdueReminders,
                      IF dueDate = NULL THEN NoTimeRemaining
                      ELSE formatTimeRemaining(dueDate, wallClock))

-----------------------------------------------------------------------------
(* Schedule calculator *)

Reason(text, n) == [text |-> text, n |-> n]

\* The state captured by the addNotification closure.
Ctx(task, profile, existingOverdueReminders, preferences, now, wallClock) ==
    [task |-> task, profile |-> profile,
     existingOverdueReminders |-> existingOverdueReminders,
     preferences |-> preferences, now |-> now, wallClock |-> wallClock,
     isWorkTask |-> (task.category = "work"),
     dueDate |-> task.due_date]

addNotification(c, notifications, time, reason, type, priorityLevel) ==
    LET adjustedTime == adjustToWorkHours(time, c.profile, c.isWorkTask)
        minLeadTime  == c.now + c.preferences.minimumLeadTime * 60 * 1000
    IN  IF isInQuietHours(adjustedTime, c.preferences) THEN notifications
        ELSE IF adjustedTime <= minLeadTime THEN notifications
        ELSE Append(notifications,
                    [time |-> adjustedTime, reason |-> reason, type |-> type,
                     priority |-> priorityLevel,
                     content |-> generateNotificationContent(
                                     c.task, type, c.dueDate,
                                     c.existingOverdueReminders, c.wallClock)])

\* if (cond) { addNotification(...) }
addNotificationIf(cond, c, notifications, time, reason, type, priorityLevel) ==
    IF cond THEN addNotification(c, notifications, time, reason, type, priorityLevel)
    ELSE notifications

\* if (!task.due_date) { ... }
noDueDateBranch(c) ==
    IF c.task.priority = "high" THEN
        LET peakHours    == getPeakEnergyHours(c.profile.peak_energy_time)
            reminderTime == setHours(addDay(c.now), peakHours.start, 0)
        IN  IF c.isWorkTask THEN
                LET adjustedTime == adjustToWorkHours(reminderTime, c.profile, TRUE)
                IN  IF adjustedTime > c.now /\ ~isInQuietHours(adjustedTime, c.preferences)
                    THEN <<[time |-> adjustedTime,
                            reason |-> Reason("High priority task without deadline - peak energy reminder", 0),
                            type |-> "daily-summary", priority |-> "high",
                            content |-> generateNotificationContent(
                                            c.task, "daily-summary", NULL, 0, c.wallClock)]>>
                    ELSE <<>>
            ELSE <<>>
    ELSE <<>>

\* overdueBranch with the interval multiplied by the frequency multiplier
overdueBranchMultiplied(c) ==
    IF c.task.priority = "high" THEN
      IF c.existingOverdueReminders < 3 THEN
        addNotification(c, <<>>,
            c.now + (4 * 60 * 60 * 1000 * c.preferences.fmQ) \div 4,
            Reason("Overdue high priority - reminder <n> of 3",
                   c.existingOverdueReminders + 1),
            "overdue", "high")
      ELSE <<>>
    ELSE IF c.task.priority = "medium" THEN
        LET nine         == setHours(c.now, 9, 0)
            reminderTime == IF nine <= c.now THEN addDay(nine) ELSE nine
        IN  addNotification(c, <<>>, reminderTime,
                Reason("Overdue medium priority - daily reminder", 0),
                "overdue", "medium")
    ELSE <<>>

\* overdueBranch with the cap tested as <= 3
overdueBranchOffByOne(c) ==
    IF c.task.priority = "high" THEN
      IF c.existingOverdueReminders <= 3 THEN
        addNotification(c, <<>>,
            c.now + (4 * 60 * 60 * 1000 * 4) \div c.preferences.fmQ,
            Reason("Overdue high priority - reminder <n> of 3",
                   c.existingOverdueReminders + 1),
            "overdue", "high")
      ELSE <<>>
    ELSE IF c.task.priority = "medium" THEN
        LET nine         == setHours(c.now, 9, 0)
            reminderTime == IF nine <= c.now THEN addDay(nine) ELSE nine
        IN  addNotification(c, <<>>, reminderTime,
                Reason("Overdue medium priority - daily reminder", 0),
                "overdue", "medium")
    ELSE <<>>

\* if (isOverdue) { ... return }
overdueBranch(c) ==
    IF c.task.priority = "high" THEN
        IF c.existingOverdueReminders < 3 THEN
            LET baseInterval     == 4 * 60 * 60 * 1000
                \* baseInterval / frequencyMultiplier; new Date() drops the fraction
                adjustedInterval == (baseInterval * 4) \div c.preferences.fmQ
                nextReminder     == c.now + adjustedInterval
            IN  addNotification(c, <<>>, nextReminder,
                    Reason("Overdue high priority - reminder <n> of 3",
                           c.existingOverdueReminders + 1),
                    "overdue", "high")
        ELSE <<>>
    ELSE IF c.task.priority = "medium" THEN
        LET nine         == setHours(c.now, 9, 0)
            reminderTime == IF nine <= c.now THEN addDay(nine) ELSE nine
        IN  addNotification(c, <<>>, reminderTime,
                Reason("Overdue medium priority - daily reminder", 0),
                "overdue", "medium")
    ELSE <<>>

\* the reduce threshold moved to the default multiplier
shouldReduceUpToOne(preferences) == preferences.fmQ <= 4   \* <= 1
\* the reduce test taken for the extra test
shouldReduceAtHigh(preferences)  == preferences.fmQ >= 6   \* >= 1.5

shouldAddExtraNotifications(preferences) == preferences.fmQ >= 6   \* >= 1.5
shouldReduceNotifications(preferences)   == preferences.fmQ <= 2   \* <= 0.5

\* priority high, specificTime
highSpecificTime(c) ==
    LET leadTime == getLeadTimeForDuration(c.task.estimated_duration)
        dueDate  == c.dueDate
        twentyFourHoursBefore == dueDate - 24 * 60 * 60 * 1000
        twoHoursBefore        == dueDate - 2 * 60 * 60 * 1000
        finalReminder         == dueDate - leadTime * 60 * 1000
        sixHoursBefore        == dueDate - 6 * 60 * 60 * 1000
        n1 == addNotificationIf(
                  ~shouldReduceNotifications(c.preferences) /\ twentyFourHoursBefore > c.now,
                  c, <<>>, twentyFourHoursBefore,
                  Reason("24hr advance notice for high priority", 0),
                  "advance-notice", "high")
        n2 == addNotificationIf(twoHoursBefore > c.now,
                  c, n1, twoHoursBefore,
                  Reason("2hr reminder before scheduled time", 0),
                  "reminder", "high")
        n3 == addNotificationIf(finalReminder > c.now,
                  c, n2, finalReminder,
                  Reason("<n>min final reminder", leadTime),
                  "final-reminder", "high")
        n4 == addNotificationIf(
                  shouldAddExtraNotifications(c.preferences) /\ sixHoursBefore > c.now,
                  c, n3, sixHoursBefore,
                  Reason("6hr early warning for high priority", 0),
                  "reminder", "high")
    IN  n4

\* the three reminders for every multiplier
dateOnlyTimesAlways(preferences) ==
    <<[hour |-> 9,  minute |-> 0, label |-> "morning"],
      [hour |-> 14, minute |-> 0, label |-> "afternoon"],
      [hour |-> 18, minute |-> 0, label |-> "evening"]>>

\* the `times` table of the date-only branch
dateOnlyTimes(preferences) ==
    IF shouldReduceNotifications(preferences)
    THEN <<[hour |-> 9, minute |-> 0, label |-> "morning"]>>
    ELSE <<[hour |-> 9,  minute |-> 0, label |-> "morning"],
           [hour |-> 14, minute |-> 0, label |-> "afternoon"],
           [hour |-> 18, minute |-> 0, label |-> "evening"]>>

RECURSIVE dateOnlyLoop(_, _, _, _)
dateOnlyLoop(c, times, i, notifications) ==
    IF i > Len(times) THEN notifications
    ELSE LET notifTime == setHours(c.dueDate, times[i].hour, times[i].minute)
         IN  dateOnlyLoop(c, times, i + 1,
                 addNotificationIf(notifTime > c.now,
                     c, notifications, notifTime,
                     Reason("High priority due date - " \o times[i].label \o " reminder", 0),
                     "reminder", "high"))

\* priority high, date only
highDateOnly(c, isDueToday) ==
    LET n1 == dateOnlyLoop(c, dateOnlyTimes(c.preferences), 1, <<>>)
        twentyFourHoursBefore == setHours(c.dueDate - 24 * 60 * 60 * 1000, 9, 0)
    IN  addNotificationIf(
            ~shouldReduceNotifications(c.preferences)
                /\ twentyFourHoursBefore > c.now /\ ~isDueToday,
            c, n1, twentyFourHoursBefore,
            Reason("24hr advance notice for high priority", 0),
            "advance-notice", "high")

\* the date-only reminder left at the due date's midnight
mediumBranchAtMidnight(c, specificTime) ==
    IF specificTime THEN
        LET twoHoursBefore   == c.dueDate - 2 * 60 * 60 * 1000
            fifteenMinBefore == c.dueDate - 15 * 60 * 1000
            n1 == addNotificationIf(twoHoursBefore > c.now,
                      c, <<>>, twoHoursBefore,
                      Reason("2hr reminder for medium priority task", 0),
                      "reminder", "medium")
        IN  addNotificationIf(
                shouldAddExtraNotifications(c.preferences) /\ fifteenMinBefore > c.now,
                c, n1, fifteenMinBefore,
                Reason("15min final reminder for medium priority", 0),
                "final-reminder", "medium")
    ELSE
        LET reminderTime == c.dueDate
        IN  IF reminderTime > c.now
            THEN addNotification(c, <<>>, reminderTime,
                     Reason("Medium priority due date - morning reminder", 0),
                     "reminder", "medium")
            ELSE <<>>

\* priority medium
mediumBranch(c, specificTime) ==
    IF specificTime THEN
        LET twoHoursBefore   == c.dueDate - 2 * 60 * 60 * 1000
            fifteenMinBefore == c.dueDate - 15 * 60 * 1000
            n1 == addNotificationIf(twoHoursBefore > c.now,
                      c, <<>>, twoHoursBefore,
                      Reason("2hr reminder for medium priority task", 0),
                      "reminder", "medium")
        IN  addNotificationIf(
                shouldAddExtraNotifications(c.preferences) /\ fifteenMinBefore > c.now,
                c, n1, fifteenMinBefore,
                Reason("15min final reminder for medium priority", 0),
                "final-reminder", "medium")
    ELSE
        LET reminderTime == setHours(c.dueDate, 9, 0)
        IN  IF reminderTime > c.now
            THEN addNotification(c, <<>>, reminderTime,
                     Reason("Medium priority due date - morning reminder", 0),
                     "reminder", "medium")
            ELSE <<>>

\* Array.prototype.sort with (a, b) => a.time - b.time: a stable sort by time
RECURSIVE insertByTime(_, _)
insertByTime(sorted, n) ==
    IF sorted = <<>> THEN <<n>>
    ELSE IF Head(sorted).time <= n.time
         THEN <<Head(sorted)>> \o insertByTime(Tail(sorted), n)
         ELSE <<n>> \o sorted

\* the accumulated list returned as it was built
sortByTimeSkipped(notifications) == notifications

RECURSIVE sortByTime(_)
sortByTime(notifications) ==
    IF notifications = <<>> THEN <<>>
    ELSE insertByTime(sortByTime(SubSeq(notifications, 1, Len(notifications) - 1)),
                      notifications[Len(notifications)])

\* calculateNotificationSchedule with one of its first two early returns
\* left out, or with a task counted as overdue from its due time on
calculateSkipping(skipCompleted, skipDisabled, byTime, task, profile, existingOverdueReminders, preferences, now, wallClock) ==
    LET c == Ctx(task, profile, existingOverdueReminders, preferences, now, wallClock)
    IN  IF ~skipCompleted /\ task.status = "completed" THEN <<>>
        ELSE IF ~skipDisabled /\ task.priority \in preferences.disabledPriorities THEN <<>>
        ELSE IF task.priority = "low" THEN <<>>
        ELSE IF task.due_date = NULL THEN noDueDateBranch(c)
        ELSE LET dueDate      == task.due_date
                 dueDateStart == setHours(dueDate, 0, 0)
                 todayStart   == setHours(now, 0, 0)
                 isOverdue    == IF byTime THEN dueDate < now
                                 ELSE dueDateStart < todayStart
                 isDueToday   == dueDateStart = todayStart
                 specificTime == hasSpecificTime(dueDate)
             IN  IF isOverdue THEN overdueBranch(c)
                 ELSE sortByTime(
                        IF task.priority = "high"
                        THEN IF specificTime THEN highSpecificTime(c)
                             ELSE highDateOnly(c, isDueToday)
                        ELSE IF task.priority = "medium"
                        THEN mediumBranch(c, specificTime)
                        ELSE <<>>)

calculateIgnoringCompleted(task, profile, existingOverdueReminders, preferences, now, wallClock) ==
    calculateSkipping(TRUE, FALSE, FALSE, task, profile, existingOverdueReminders,
                      preferences, now, wallClock)

calculateIgnoringDisabled(task, profile, existingOverdueReminders, preferences, now, wallClock) ==
    calculateSkipping(FALSE, TRUE, FALSE, task, profile, existingOverdueReminders,
                      preferences, now, wallClock)

calculateOverdueByTime(task, profile, existingOverdueReminders, preferences, now, wallClock) ==
    calculateSkipping(FALSE, FALSE, TRUE, task, profile, existingOverdueReminders,
                      preferences, now, wallClock)

\* Returns the `notifications` of the NotificationSchedule (taskId and
\* taskTitle are copied from the task).  now is the `new Date()` of line 307.
calculateNotificationSchedule(task, profile, existingOverdueReminders, preferences, now, wallClock) ==
    LET c == Ctx(task, profile, existingOverdueReminders, preferences, now, wallClock)
    IN  IF task.status = "completed" THEN <<>>
        ELSE IF task.priority \in preferences.disabledPriorities THEN <<>>
        ELSE IF task.priority = "low" THEN <<>>
        ELSE IF task.due_date = NULL THEN noDueDateBranch(c)
        ELSE LET dueDate      == task.due_date
                 dueDateStart == setHours(dueDate, 0, 0)
                 todayStart   == setHours(now, 0, 0)
                 isOverdue    == dueDateStart < todayStart
                 isDueToday   == dueDateStart = todayStart
                 specificTime == hasSpecificTime(dueDate)
             IN  IF isOverdue THEN overdueBranch(c)
                 ELSE sortByTime(
                        IF task.priority = "high"
                        THEN IF specificTime THEN highSpecificTime(c)
                             ELSE highDateOnly(c, isDueToday)
                        ELSE IF task.priority = "medium"
                        THEN mediumBranch(c, specificTime)
                        ELSE <<>>)

-----------------------------------------------------------------------------
(* Engine harness: one invocation of calculateNotificationSchedule per     *)
(* behaviour, on inputs drawn from the sets below.                         *)

MaxOverdueDays  == 1     \* due dates reach back this many days before Today
Today           == MaxOverdueDays + 1   \* the local day of `now`
MaxAheadDays    == 1     \* ... and this many days after it
MaxCount        == 3     \* existingOverdueReminders ranges over 0 .. MaxCount
MaxDelay        == 1     \* ms between `now` and the content generator's clock sample

TimesOfDay == {HM(0, 0), HM(8, 0), HM(15, 0), HM(23, 30)}
DueDates ==
    {NULL} \cup {At(d, t.h, t.m) : d \in (Today - MaxOverdueDays)..(Today + MaxAheadDays),
                                  t \in TimesOfDay}
Nows == {At(Today, 8, 30), At(Today, 10, 0), At(Today, 15, 0), At(Today, 23, 45)}

\* estimated_duration is read for a live high-priority task only
Tasks ==
    {t \in [id : {"t1"}, title : {"a"}, due_date : DueDates,
            status : {"not_started", "completed"},
            priority : {"high", "medium", "low"},
            estimated_duration : {NULL, 90},
            category : {"work", "personal"}] :
        (t.status = "completed" \/ t.priority # "high") => t.estimated_duration = NULL}

Profiles ==
    {[work_hours_start |-> HM(9, 0),  work_hours_end |-> HM(18, 0),  peak_energy_time |-> ""],
     [work_hours_start |-> HM(9, 30), work_hours_end |-> HM(17, 30), peak_energy_time |-> "morning"],
     [work_hours_start |-> HM(16, 0), work_hours_end |-> HM(0, 30),  peak_energy_time |-> "evening"]}

QuietWindows == {[s |-> HM(22, 0), e |-> HM(7, 0)], [s |-> HM(13, 0), e |-> HM(14, 0)]}

\* fmQ: 0.5, 1, 1.75; minimumLeadTime: the least and the greatest the
\* settings offer; a disabled priority with each multiplier
Preferences ==
    {[fmQ |-> q, minimumLeadTime |-> l, disabledPriorities |-> {},
      quietHoursStart |-> w.s, quietHoursEnd |-> w.e] :
        q \in {2, 4, 7}, l \in {5, 60}, w \in QuietWindows}
    \cup {[fmQ |-> q, minimumLeadTime |-> 5, disabledPriorities |-> {p},
           quietHoursStart |-> HM(22, 0), quietHoursEnd |-> HM(7, 0)] :
        q \in {2, 4, 7}, p \in {"high", "medium"}}

\* One call of calculateNotificationSchedule.  The clock the content
\* generator reads is `now` or later.
Invoke ==
    /\ cpc = "idle"
    /\ \E task \in Tasks, profile \in Profiles, n \in 0..MaxCount,
          preferences \in Preferences, now \in Nows, delay \in 0..MaxDelay :
          /\ cin' = [task |-> task, profile |-> profile,
                     existingOverdueReminders |-> n,
                     preferences |-> preferences, now |-> now]
          /\ cout' = calculateNotificationSchedule(task, profile, n, preferences,
                                                   now, now + delay)
    /\ cpc' = "done"
    /\ UNCHANGED dvars

\* A second call with the same arguments and the same captured `now`.
Reinvoke ==
    /\ cpc = "done"
    /\ \E delay \in 0..MaxDelay :
          cout' = calculateNotificationSchedule(cin.task, cin.profile,
                      cin.existingOverdueReminders, cin.preferences,
                      cin.now, cin.now + delay)
    /\ UNCHANGED <<cpc, cin, dvars>>

-----------------------------------------------------------------------------
(* Engine claims *)

Done == cpc = "done"
Live == Done /\ cin.task.status # "completed"
Enabled(p) == p \notin cin.preferences.disabledPriorities
LeadLimit == cin.now + cin.preferences.minimumLeadTime * MinuteMs
DueBeforeToday ==
    cin.task.due_date # NULL /\ cin.task.due_date \div DayMs < cin.now \div DayMs

\* C1: every returned notification is later than now + minimumLeadTime
\* minutes and its minute-of-day is outside the quiet-hours window.
C1_LeadAndQuiet ==
    Done => \A i \in 1..Len(cout) :
                /\ cout[i].time > LeadLimit
                /\ ~isInQuietHours(cout[i].time, cin.preferences)

\* C6: two invocations with the same arguments and the same captured now
\* return identical schedules, content included.
C6_Pure == [][(cpc = "done" /\ cpc' = "done" /\ cin' = cin) => cout' = cout]_vars

\* The peak-energy start hour, as the claim lists it.
C7_PeakStart ==
    CASE cin.profile.peak_energy_time = "morning"   -> 8
      [] cin.profile.peak_energy_time = "afternoon" -> 12
      [] cin.profile.peak_energy_time = "evening"   -> 17
      [] OTHER -> 9
C7_Time ==
    LET t == (cin.now \div DayMs + 1) * DayMs + C7_PeakStart * HourMs
    IN  IF cin.task.category = "work"
        THEN adjustToWorkHours(t, cin.profile, TRUE) ELSE t

\* C7: a live high-priority task without due date, of any category, gets
\* exactly one daily-summary at tomorrow's peak-energy start hour (moved
\* into work hours for a work task), none only if that time is quiet; a
\* medium-priority one gets nothing.
C7_DailySummary ==
    (Live /\ cin.task.due_date = NULL) =>
        /\ (cin.task.priority = "high" /\ Enabled("high")) =>
              IF isInQuietHours(C7_Time, cin.preferences) THEN cout = <<>>
              ELSE /\ Len(cout) = 1
                   /\ cout[1].type = "daily-summary"
                   /\ cout[1].time = C7_Time
        /\ cin.task.priority = "medium" => cout = <<>>

OverdueHigh == Live /\ DueBeforeToday /\ cin.task.priority = "high"
C8_Candidate == cin.now + (4 * HourMs * 4) \div cin.preferences.fmQ
C8_Time ==
    IF cin.task.category = "work"
    THEN adjustToWorkHours(C8_Candidate, cin.profile, TRUE) ELSE C8_Candidate

\* C8 as stated: an overdue high-priority task with fewer than 3 reminders
\* gets exactly one overdue notification at now + 4h / frequencyMultiplier,
\* for every now, category and preference setting.
C8_Original ==
    (OverdueHigh /\ cin.existingOverdueReminders < 3) =>
        /\ Len(cout) = 1
        /\ cout[1].type = "overdue"
        /\ cout[1].time = C8_Candidate

\* C8 amended: with the priority not disabled, the one overdue notification
\* is at now + 4h / frequencyMultiplier moved into work hours for a work
\* task, and it is returned unless that time is quiet or not later than
\* now + minimumLeadTime; then nothing is returned.
C8_Amended ==
    (OverdueHigh /\ Enabled("high") /\ cin.existingOverdueReminders < 3) =>
        IF isInQuietHours(C8_Time, cin.preferences) \/ C8_Time <= LeadLimit
        THEN cout = <<>>
        ELSE /\ Len(cout) = 1
             /\ cout[1].type = "overdue"
             /\ cout[1].priority = "high"
             /\ cout[1].time = C8_Time

C8_Witness ==
    /\ OverdueHigh /\ Enabled("high") /\ cin.existingOverdueReminders = 1
    /\ cin.preferences.fmQ = 7
    /\ Len(cout) = 1 /\ cout[1].type = "overdue" /\ cout[1].time = C8_Candidate

\* C9: an overdue high-priority task with 3 or more reminders gets nothing,
\* and the overdue branch never returns more than one notification.
C9_OverdueCap ==
    (Live /\ DueBeforeToday) =>
        /\ Len(cout) <= 1
        /\ (cin.task.priority = "high" /\ cin.existingOverdueReminders >= 3)
              => cout = <<>>

\* the count has reached 3 on an input that a smaller count gets a reminder for
C9_Witness ==
    /\ OverdueHigh /\ Enabled("high") /\ cin.existingOverdueReminders = 3
    /\ cin.task.category # "work"
    /\ ~isInQuietHours(C8_Candidate, cin.preferences)
    /\ cout = <<>>

MinuteOfDay(t) == getHours(t) * 60 + getMinutes(t)
HMValue(hm) == hm.h * 60 + hm.m

\* C11: for a work task every returned notification has its minute-of-day
\* inside the closed window [work_hours_start, work_hours_end] (windows
\* that do not wrap midnight), whatever the minutes of the window's ends.
C11_InWorkHours ==
    (Done /\ cin.task.category = "work"
          /\ HMValue(cin.profile.work_hours_start) <= HMValue(cin.profile.work_hours_end))
        => \A i \in 1..Len(cout) :
               /\ MinuteOfDay(cout[i].time) >= HMValue(cin.profile.work_hours_start)
               /\ MinuteOfDay(cout[i].time) <= HMValue(cin.profile.work_hours_end)

\* C12: the returned list is non-decreasing by time.
C12_Sorted ==
    Done => \A i \in 1..Len(cout), j \in 1..Len(cout) :
                i < j => cout[i].time <= cout[j].time

\* the 6h-before reminder, appended last, is returned ahead of the final
\* reminder
C12_Witness ==
    /\ Done /\ Len(cout) >= 2
    /\ \E i \in 1..Len(cout), j \in 1..Len(cout) :
          /\ i < j
          /\ cout[i].reason.text = "6hr early warning for high priority"
          /\ cout[j].type = "final-reminder"
          /\ cout[i].time < cout[j].time

\* C13: a completed task gets an empty list, whatever its other fields,
\* the overdue count and the preferences.
C13_CompletedEmpty ==
    (Done /\ cin.task.status = "completed") => cout = <<>>

\* a completed task of an enabled priority with a due time ahead, whose
\* reminders 2h before and at the lead time would otherwise be due
C13_Witness ==
    /\ Done /\ cin.task.status = "completed"
    /\ cin.task.priority = "high" /\ Enabled("high")
    /\ cin.task.category = "personal"
    /\ cin.task.due_date = At(Today, 15, 0) /\ cin.now = At(Today, 10, 0)
    /\ cin.preferences.quietHoursStart = HM(22, 0)
    /\ cout = <<>>

\* C14: a task of priority low, or of a priority listed in
\* disabledPriorities, gets an empty list.
C14_LowOrDisabledEmpty ==
    (Done /\ (cin.task.priority = "low" \/ ~Enabled(cin.task.priority)))
        => cout = <<>>

\* a live task of a disabled priority, high or medium, with a due time
\* ahead whose 2h-before reminder would otherwise be due
C14_Witness ==
    /\ Live /\ ~Enabled(cin.task.priority)
    /\ cin.task.category = "personal"
    /\ cin.task.due_date = At(Today, 15, 0) /\ cin.now = At(Today, 10, 0)
    /\ cin.preferences.quietHoursStart = HM(22, 0)
    /\ cout = <<>>

\* Minute m of a day is quiet for the window s..e: a window with s > e runs
\* through midnight and leaves only the minutes strictly between e and s.
QuietMinute(m, s, e) ==
    IF s > e THEN ~(e < m /\ m < s) ELSE s <= m /\ m <= e
QuietNow(m) == QuietMinute(m, HMValue(cin.preferences.quietHoursStart),
                              HMValue(cin.preferences.quietHoursEnd))
\* both ends of the window, the minutes just outside them, and the ends
\* of the day
ProbeMinutes ==
    LET s == HMValue(cin.preferences.quietHoursStart)
        e == HMValue(cin.preferences.quietHoursEnd)
    IN  {s - 1, s, e, e + 1, 0, 24 * 60 - 1}
Overnight == [quietHoursStart |-> HM(22, 0), quietHoursEnd |-> HM(7, 0)]

\* C15: a time is quiet iff its minute-of-day is in start..end, both ends
\* included, where a window with start > end runs through midnight; with
\* 22:00-07:00, 23:30 is quiet and 08:00 is not; no returned notification
\* is at a quiet minute.
C15_QuietWindow ==
    Done =>
        /\ \A m \in ProbeMinutes :
              isInQuietHours(At(Today, 0, m), cin.preferences) <=> QuietNow(m)
        /\ isInQuietHours(At(Today, 23, 30), Overnight)
        /\ ~isInQuietHours(At(Today, 8, 0), Overnight)
        /\ \A i \in 1..Len(cout) : ~QuietNow(MinuteOfDay(cout[i].time))

\* window 22:00-07:00, task due tomorrow 08:00: the reminder 2h before, at
\* 06:00, is dropped and the final reminder at 07:45 is returned
C15_Witness ==
    /\ Live /\ cin.task.priority = "high" /\ Enabled("high")
    /\ cin.task.category = "personal" /\ cin.task.estimated_duration = NULL
    /\ cin.task.due_date = At(Today + 1, 8, 0) /\ cin.now = At(Today, 8, 30)
    /\ cin.preferences.quietHoursStart = HM(22, 0)
    /\ cin.preferences.quietHoursEnd = HM(7, 0)
    /\ cin.preferences.fmQ = 4
    /\ Len(cout) = 1 /\ cout[1].time = At(Today + 1, 7, 45)

HighSpecific ==
    /\ Live /\ cin.task.priority = "high" /\ Enabled("high")
    /\ cin.task.due_date # NULL /\ ~DueBeforeToday
    /\ hasSpecificTime(cin.task.due_date)

\* The four candidates of the claim, in the order 24h, 2h, lead time, 6h:
\* the time before the due time and whether the multiplier admits it.
C16_Candidates ==
    LET due == cin.task.due_date
    IN  <<[time |-> due - 24 * HourMs, on |-> cin.preferences.fmQ > 2],
          [time |-> due - 2 * HourMs,  on |-> TRUE],
          [time |-> due - getLeadTimeForDuration(cin.task.estimated_duration) * MinuteMs,
           on |-> TRUE],
          [time |-> due - 6 * HourMs,  on |-> cin.preferences.fmQ >= 6]>>
\* where the admission gate places candidate k, and whether it lets it pass
C16_Placed(k) ==
    IF cin.task.category = "work"
    THEN adjustToWorkHours(C16_Candidates[k].time, cin.profile, TRUE)
    ELSE C16_Candidates[k].time
C16_Emitted(k) ==
    /\ C16_Candidates[k].on
    /\ C16_Candidates[k].time > cin.now
    /\ ~QuietNow(MinuteOfDay(C16_Placed(k)))
    /\ C16_Placed(k) > LeadLimit
C16_Scenario ==
    /\ cin.task.due_date = At(Today, 15, 0) /\ cin.task.estimated_duration = 90
    /\ cin.now = At(Today, 10, 0)
    /\ cin.preferences.quietHoursStart = HM(22, 0)
    /\ cin.preferences.quietHoursEnd = HM(7, 0)
    /\ (cin.task.category = "work" =>
            /\ cin.profile.work_hours_start = HM(9, 0)
            /\ cin.profile.work_hours_end = HM(18, 0))

\* C16: a live, enabled, non-overdue high-priority task with a due time
\* gets exactly the candidates due-24h (multiplier > 0.5), due-2h,
\* due-lead time and due-6h (multiplier >= 1.5) that are after now and pass
\* the admission gate, each as often as it passes; due today 15:00 with
\* duration 90 and now 10:00 gives 13:00 and 14:40; with multiplier 0.5
\* only the 2h and the final reminder appear.
C16_HighSpecific ==
    HighSpecific =>
        /\ Len(cout) = Cardinality({k \in 1..4 : C16_Emitted(k)})
        /\ \A k \in 1..4 : C16_Emitted(k) =>
              Cardinality({i \in 1..Len(cout) : cout[i].time = C16_Placed(k)})
                = Cardinality({j \in 1..4 : C16_Emitted(j) /\ C16_Placed(j) = C16_Placed(k)})
        /\ C16_Scenario =>
              /\ Len(cout) = 2
              /\ cout[1].time = At(Today, 13, 0)
              /\ cout[2].time = At(Today, 14, 40)
        /\ cin.preferences.fmQ = 2 =>
              \A i \in 1..Len(cout) :
                  cout[i].reason.text \in {"2hr reminder before scheduled time",
                                           "<n>min final reminder"}

\* the scenario with a work task, work hours 09:00-18:00 and multiplier 1
C16_Witness ==
    /\ HighSpecific /\ C16_Scenario
    /\ cin.task.category = "work" /\ cin.preferences.fmQ = 4
    /\ Len(cout) = 2
    /\ cout[1].type = "reminder" /\ cout[1].time = At(Today, 13, 0)
    /\ cout[2].type = "final-reminder" /\ cout[2].time = At(Today, 14, 40)

-----------------------------------------------------------------------------
(* Dispatcher: useNotificationScheduler.                                   *)
(*                                                                         *)
(* An async function of the hook runs without interruption up to an await  *)
(* on the delivery sink and is then suspended; a suspended call is an      *)
(* entry of procs.  One step of an entry is the sink carrying out the      *)
(* awaited call, followed by the code up to the next such await.           *)
(* enabled, hasPermission and profile are taken to be set.                 *)

MaxUpdates == 2     \* task-list updates in one behaviour
MaxTicks   == 1     \* timer ticks in one behaviour
MaxProcs   == 4     \* async calls suspended at the same time

TaskIds == {"t1", "t2"}
TaskOrder == <<"t1", "t2">>  \* the order of the tasks array
\* the ids of the task lists of the scheduler's main specification
ListIds == {"t1"}

\* The task records the task store hands to the hook.
\* The tasks the list is drawn from: a high-priority one due yesterday and
\* a medium-priority one due yesterday or tomorrow, each under two titles,
\* open or completed; and the first of them with a duration, as a work
\* task, or due today at 12:00.
DShapes ==
    {[due_date |-> At(Today - 1, 0, 0), priority |-> "high"],
     [due_date |-> At(Today - 1, 0, 0), priority |-> "medium"],
     [due_date |-> At(Today + 1, 0, 0), priority |-> "medium"]}
DBase(id) ==
    [id |-> id, title |-> "a", due_date |-> At(Today - 1, 0, 0),
     status |-> "not_started", priority |-> "high",
     estimated_duration |-> NULL, category |-> "personal"]
DTasks ==
    {[DBase(id) EXCEPT !.title = title, !.status = status,
                       !.due_date = s.due_date, !.priority = s.priority] :
        id \in TaskIds, title \in {"a", "b"},
        status \in {"not_started", "completed"}, s \in DShapes}
    \cup {[DBase(id) EXCEPT !.estimated_duration = 90] : id \in TaskIds}
    \cup {[DBase(id) EXCEPT !.category = "work"] : id \in TaskIds}
    \cup {[DBase(id) EXCEPT !.due_date = At(Today, 12, 0)] : id \in TaskIds}

TaskLists == UNION {[S -> DTasks] : S \in SUBSET ListIds}
WellFormed(ts) == \A id \in DOMAIN ts : ts[id].id = id

\* The tasks array in order.
RECURSIVE TaskSeq(_, _)
TaskSeq(ts, i) ==
    IF i > Len(TaskOrder) THEN <<>>
    ELSE (IF TaskOrder[i] \in DOMAIN ts THEN <<ts[TaskOrder[i]]>> ELSE <<>>)
         \o TaskSeq(ts, i + 1)

DProfile ==
    [work_hours_start |-> HM(9, 0), work_hours_end |-> HM(18, 0), peak_energy_time |-> ""]

DEFAULT_NOTIFICATION_PREFERENCES ==
    [fmQ |-> 4, minimumLeadTime |-> 5, disabledPriorities |-> {},
     quietHoursStart |-> HM(22, 0), quietHoursEnd |-> HM(7, 0)]

\* getUserPreferences() with nothing stored
getUserPreferences == DEFAULT_NOTIFICATION_PREFERENCES

\* lastSmartScheduleRef: null, or a schedule key
NoKey == [set |-> FALSE, key |-> <<>>]
toDateString(d) == d \div DayMs

(* Delivery sink (useLocalNotifications), from its interface:               *)
(* schedule(notification) -> handle, cancel(handle), cancelAllOfType(type). *)
(* Every task notification is submitted with its own type and with          *)
(* data.type 'task-reminder'; the interface does not say which of the two   *)
(* cancelAllOfType compares, so either may be the case (cancelMatches).     *)
Pending(id, taskId, type, scheduleAt, via) ==
    [id |-> id, taskId |-> taskId, type |-> type, dataType |-> "task-reminder",
     scheduleAt |-> scheduleAt, via |-> via]
sinkSchedule(pending, id, taskId, notif, via) ==
    pending \cup {Pending(id, taskId, notif.type, notif.time, via)}
sinkCancel(pending, id) == {n \in pending : n.id # id}
sinkCancelByType(pending, type, field) ==
    {n \in pending : (IF field = "type" THEN n.type ELSE n.dataType) # type}
\* the notifications whose time has come are shown and are pending no more
sinkDeliver(pending, now) == {n \in pending : n.scheduleAt > now}

\* hasScheduleChanged without the comparison of the titles
hasScheduleChangedButTitle(prev, newTask) ==
    IF newTask.id \notin DOMAIN prev THEN TRUE
    ELSE LET oldTask == prev[newTask.id]
         IN  \/ oldTask.due_date # newTask.due_date
             \/ oldTask.priority # newTask.priority
             \/ oldTask.status # newTask.status
             \/ oldTask.estimated_duration # newTask.estimated_duration
             \/ oldTask.category # newTask.category

\* hasScheduleChanged(oldTask, newTask), oldTask given as the previous
\* snapshots and the id
hasScheduleChanged(prev, newTask) ==
    IF newTask.id \notin DOMAIN prev THEN TRUE
    ELSE LET oldTask == prev[newTask.id]
         IN  \/ oldTask.due_date # newTask.due_date
             \/ oldTask.priority # newTask.priority
             \/ oldTask.status # newTask.status
             \/ oldTask.estimated_duration # newTask.estimated_duration
             \/ oldTask.category # newTask.category
             \/ oldTask.title # newTask.title

\* overdueReminderCounts[id] || 0
countOrZero(counts, id) == IF id \in DOMAIN counts THEN counts[id] ELSE 0

\* the batch without its last filter
RECURSIVE calculateAllKeepingEmpty(_, _, _, _, _, _)
calculateAllKeepingEmpty(ts, i, profile, counts, preferences, now) ==
    IF i > Len(ts) THEN <<>>
    ELSE LET task == ts[i]
             notifications ==
                 IF task.status = "completed" THEN <<>>
                 ELSE calculateNotificationSchedule(task, profile,
                          countOrZero(counts, task.id), preferences, now, now)
         IN  (IF task.status = "completed" THEN <<>>
              ELSE <<[taskId |-> task.id, taskTitle |-> task.title,
                      notifications |-> notifications]>>)
             \o calculateAllKeepingEmpty(ts, i + 1, profile, counts, preferences, now)

\* tasks.filter(not completed).map(calculateNotificationSchedule)
\*      .filter(schedule.notifications.length > 0)
RECURSIVE calculateAllFrom(_, _, _, _, _, _)
calculateAllFrom(ts, i, profile, counts, preferences, now) ==
    IF i > Len(ts) THEN <<>>
    ELSE LET task == ts[i]
             notifications ==
                 IF task.status = "completed" THEN <<>>
                 ELSE calculateNotificationSchedule(task, profile,
                          countOrZero(counts, task.id), preferences, now, now)
         IN  (IF notifications = <<>> THEN <<>>
              ELSE <<[taskId |-> task.id, taskTitle |-> task.title,
                      notifications |-> notifications]>>)
             \o calculateAllFrom(ts, i + 1, profile, counts, preferences, now)

calculateAllNotificationSchedules(ts, profile, counts, preferences, now) ==
    calculateAllFrom(ts, 1, profile, counts, preferences, now)

\* scheduleKey of scheduleSmartTaskNotifications
RECURSIVE scheduleKeyFrom(_, _)
scheduleKeyFrom(ts, i) ==
    IF i > Len(ts) THEN <<>>
    ELSE (IF ts[i].status # "completed"
          THEN <<<<ts[i].id, ts[i].due_date, ts[i].priority, ts[i].status>>>>
          ELSE <<>>)
         \o scheduleKeyFrom(ts, i + 1)
scheduleKey(ts) == [set |-> TRUE, key |-> scheduleKeyFrom(ts, 1)]

\* An entry of scheduledTaskIdsRef: a task id, or a notifKey
\* `${taskId}-${type}-${time}`.
IdEntry(taskId) == <<taskId, "", NULL>>
notifKey(taskId, notif) == <<taskId, notif.type, notif.time>>

\* The schedules flattened to (taskId, notif) pairs, in loop order.
RECURSIVE flatten(_, _, _)
flatten(schedules, i, j) ==
    IF i > Len(schedules) THEN <<>>
    ELSE IF j > Len(schedules[i].notifications) THEN flatten(schedules, i + 1, 1)
    ELSE <<[taskId |-> schedules[i].taskId, notif |-> schedules[i].notifications[j]]>>
         \o flatten(schedules, i, j + 1)

\* The loop of scheduleSmartTaskNotifications over the schedules: st is
\* [keys, counts, all] = scheduledTaskIdsRef, overdueReminderCountsRef,
\* allNotifications.
RECURSIVE smartLoop(_, _, _)
smartLoop(items, i, st) ==
    IF i > Len(items) THEN st
    ELSE LET it == items[i]
             k  == notifKey(it.taskId, it.notif)
         IN  IF k \in st.keys THEN smartLoop(items, i + 1, st)
             ELSE smartLoop(items, i + 1,
                    [keys   |-> st.keys \cup {k},
                     counts |-> IF it.notif.type = "overdue"
                                THEN [st.counts EXCEPT ![it.taskId] = @ + 1]
                                ELSE st.counts,
                     all    |-> Append(st.all, it)])

\* the types scheduleSmartTaskNotifications cancels, in order
SweepCancelTypes == <<"task-reminder", "advance-notice", "overdue", "final-reminder">>

(* Suspended calls.  kind "reschedule": rescheduleTaskNotifications;        *)
(* "cancel": cancelTaskNotifications; "sweep": scheduleSmartTaskNotifications *)
(* (under runBackgroundCheck or initializeNotifications).                   *)
Proc(kind, pc, task, cur, ids, notifs, i, got, ts, key) ==
    [kind |-> kind, pc |-> pc, task |-> task, cur |-> cur, ids |-> ids,
     notifs |-> notifs, i |-> i, got |-> got, ts |-> ts, key |-> key]

NoTask == [id |-> "", title |-> "", due_date |-> NULL, status |-> "",
           priority |-> "", estimated_duration |-> NULL, category |-> ""]

\* procs with entry k replaced by the entries of by (none when the call has ended)
ReplaceAt(seq, k, by) == SubSeq(seq, 1, k - 1) \o by \o SubSeq(seq, k + 1, Len(seq))

\* scheduleTaskNotifications up to its first await: the schedule to submit
taskSchedule(task, counts, now) ==
    calculateNotificationSchedule(task, DProfile, counts[task.id],
                                  getUserPreferences, now, now)

\* rescheduleTaskNotifications after cancelTaskNotifications has returned,
\* up to the first await of scheduleTaskNotifications: the suspended call,
\* or <<>> when it has ended
afterCancel(kind, task, counts, now) ==
    IF kind = "cancel" \/ task.status = "completed" THEN <<>>
    ELSE LET notifs == taskSchedule(task, counts, now)
         IN  IF notifs = <<>> THEN <<>>
             ELSE <<Proc("reschedule", "scheduling", task, NULL, <<>>,
                         notifs, 1, <<>>, <<>>, NoKey)>>

\* cancelTaskNotifications(taskId) up to its first await, called from
\* rescheduleTaskNotifications (kind "reschedule") or alone (kind "cancel").
\* st is [stored, keys, procs, calls]; calls collects the calls made.
startCancel(kind, task, st, counts, now) ==
    LET notificationIds == st.stored[task.id]
    IN  IF notificationIds # <<>>
        THEN [st EXCEPT !.procs = Append(@,
                 Proc(kind, "cancelling", task, Head(notificationIds),
                      Tail(notificationIds), <<>>, 0, <<>>, <<>>, NoKey)),
                        !.calls = @ \cup {[kind |-> kind, id |-> task.id]}]
        ELSE [stored |-> st.stored,
              keys   |-> st.keys \ {IdEntry(task.id)},
              procs  |-> st.procs \o afterCancel(kind, task, counts, now),
              calls  |-> st.calls \cup {[kind |-> kind, id |-> task.id]}]

\* the loop of the task-change effect over the tasks array
RECURSIVE changedLoop(_, _, _, _, _, _)
changedLoop(ts, i, prev, st, counts, now) ==
    IF i > Len(ts) THEN st
    ELSE changedLoop(ts, i + 1, prev,
             IF hasScheduleChanged(prev, ts[i])
             THEN startCancel("reschedule", ts[i], st, counts, now)
             ELSE st,
             counts, now)

\* the loop of the task-change effect over the ids of the previous snapshots
RECURSIVE deletedLoop(_, _, _, _, _, _)
deletedLoop(i, prev, current, st, counts, now) ==
    IF i > Len(TaskOrder) THEN st
    ELSE deletedLoop(i + 1, prev, current,
             IF TaskOrder[i] \in DOMAIN prev /\ TaskOrder[i] \notin current
             THEN startCancel("cancel", [NoTask EXCEPT !.id = TaskOrder[i]],
                              st, counts, now)
             ELSE st,
             counts, now)

\* the reset of runBackgroundCheck without the comparison of the days
resetCountsAlways(counts, last, now) == [id \in TaskIds |-> 0]

\* runBackgroundCheck up to its first await: the counters after the
\* midnight reset
resetCounts(counts, last, now) ==
    IF last # toDateString(now) THEN [id \in TaskIds |-> 0] ELSE counts

\* scheduleSmartTaskNotifications up to its first await, with the tasks of
\* its closure: the suspended call, or <<>> when the key is the last one
startSweep(ts, last) ==
    IF last = scheduleKey(ts) THEN <<>>
    ELSE <<Proc("sweep", "cancelByType", NoTask, NULL, <<>>, <<>>, 1, <<>>,
                ts, scheduleKey(ts))>>

-----------------------------------------------------------------------------
(* Batch harness: one call of calculateAllNotificationSchedules on a list  *)
(* of up to MaxBatch tasks with distinct ids.                              *)

MaxBatch == 3
BatchIds == {"t1", "t2", "t3"}
\* a task with reminders ahead, the same completed, a low-priority one, and
\* an overdue one whose schedule depends on its count
BatchTasks ==
    {[id |-> id, title |-> "a", due_date |-> sh.due, status |-> sh.status,
      priority |-> sh.priority, estimated_duration |-> NULL,
      category |-> "personal"] :
        id \in BatchIds,
        sh \in {[due |-> At(Today + 1, 15, 0), status |-> "not_started", priority |-> "high"],
                [due |-> At(Today + 1, 15, 0), status |-> "completed",   priority |-> "high"],
                [due |-> At(Today + 1, 15, 0), status |-> "not_started", priority |-> "low"],
                [due |-> At(Today - 1, 15, 0), status |-> "not_started", priority |-> "high"]}}
BatchLists ==
    {ts \in UNION {[1..n -> BatchTasks] : n \in 0..MaxBatch} :
        \A i \in 1..Len(ts), j \in 1..Len(ts) : i # j => ts[i].id # ts[j].id}
\* overdueReminderCounts: a record with an entry for some of the ids
BatchCounts == UNION {[S -> {1, MaxCount}] : S \in SUBSET BatchIds}

InvokeAll ==
    /\ cpc = "idle"
    /\ \E ts \in BatchLists, counts \in BatchCounts, q \in {2, 4} :
          /\ cin' = [tasks |-> ts, profile |-> DProfile, counts |-> counts,
                     preferences |-> [DEFAULT_NOTIFICATION_PREFERENCES EXCEPT !.fmQ = q],
                     now |-> At(Today, 10, 0)]
          /\ cout' = calculateAllNotificationSchedules(ts, DProfile, counts,
                         [DEFAULT_NOTIFICATION_PREFERENCES EXCEPT !.fmQ = q],
                         At(Today, 10, 0))
    /\ cpc' = "doneAll"
    /\ UNCHANGED dvars

\* One call of getLeadTimeForDuration, on null or a number of minutes.
MaxDuration == 121
InvokeLead ==
    /\ cpc = "idle"
    /\ \E durationMinutes \in {NULL} \cup 0..MaxDuration :
          /\ cin' = [durationMinutes |-> durationMinutes]
          /\ cout' = getLeadTimeForDuration(durationMinutes)
    /\ cpc' = "doneLead"
    /\ UNCHANGED dvars

\* the step just taken was not a task-list update
NoUpdate == [set |-> FALSE, prev |-> <<>>, calls |-> {}]

\* The engine has not been called; the scheduler hook has just been mounted
\* over a sink whose cancelAllOfType compares the given field.
InitWith(field) ==
    /\ cpc = "idle"
    /\ cin = <<>>
    /\ cout = <<>>
    /\ cancelMatches = field
    /\ clock = At(Today, 10, 0)
    /\ tasks = <<>>
    /\ previousTasks = <<>>
    /\ storedIds = [id \in TaskIds |-> <<>>]
    /\ scheduledTaskIds = {}
    /\ overdueReminderCounts = [id \in TaskIds |-> 0]
    /\ lastSmartSchedule = NoKey
    /\ lastReset = NULL
    /\ sink = {}
    /\ nextId = 1
    /\ procs = <<>>
    /\ updates = 0
    /\ ticks = 0
    /\ submittedOverdue = [id \in TaskIds |-> 0]
    /\ lastUpdate = NoUpdate
    /\ failures = {}

Init == \E field \in {"type", "data.type"} : InitWith(field)
\* the engine does not use the sink
CalcInit == InitWith("type")

\* The component renders with a tasks array of `lists`: the task-change effect, the
\* background-check effect (runBackgroundCheck, whose identity depends on
\* tasks) and the initialisation effect run, in this order, each up to its
\* first await on the sink.
TaskUpdateFrom(lists) ==
    /\ updates < MaxUpdates
    /\ \E newTasks \in lists :
          /\ WellFormed(newTasks)
          /\ LET ts     == TaskSeq(newTasks, 1)
                 counts == resetCounts(overdueReminderCounts, lastReset, clock)
                 st0    == [stored |-> storedIds, keys |-> scheduledTaskIds,
                            procs |-> procs, calls |-> {}]
                 st1    == changedLoop(ts, 1, previousTasks, st0, counts, clock)
                 init   == Proc("sweep", "refresh", NoTask, NULL, <<>>, <<>>, 0,
                                <<>>, ts, scheduleKey(ts))
             IN  \E st2 \in {deletedLoop(1, previousTasks, DOMAIN newTasks, st1,
                                         counts, clock)} :
                     /\ Len(st2.procs) + 2 <= MaxProcs
                     /\ tasks' = newTasks
                     /\ previousTasks' = newTasks
                     /\ storedIds' = st2.stored
                     /\ scheduledTaskIds' = st2.keys
                     /\ overdueReminderCounts' = counts
                     /\ procs' = st2.procs \o startSweep(ts, NoKey) \o <<init>>
                     /\ lastUpdate' = [set |-> TRUE, prev |-> previousTasks,
                                        calls |-> st2.calls]
    /\ lastReset' = toDateString(clock)
    /\ lastSmartSchedule' = NoKey
    /\ updates' = updates + 1
    /\ UNCHANGED <<clock, sink, nextId, ticks, submittedOverdue,
                   cvars, cancelMatches, failures>>

\* a render with one of the task lists of the main specification
TaskUpdate == TaskUpdateFrom(TaskLists)

\* Time passes and the hourly interval fires runBackgroundCheck.  The sink
\* answers a call well within the hour: no call is in flight by then.
Tick ==
    /\ updates > 0
    /\ ticks < MaxTicks
    /\ procs = <<>>
    /\ \E d \in {HourMs, DayMs} :
          /\ clock' = clock + d
          /\ sink' = sinkDeliver(sink, clock + d)
          /\ overdueReminderCounts' =
                 resetCounts(overdueReminderCounts, lastReset, clock + d)
          /\ lastReset' = toDateString(clock + d)
          /\ submittedOverdue' =
                 IF toDateString(clock + d) # toDateString(clock)
                 THEN [id \in TaskIds |-> 0] ELSE submittedOverdue
    /\ lastSmartSchedule' = NoKey
    /\ procs' = procs \o startSweep(TaskSeq(tasks, 1), NoKey)
    /\ ticks' = ticks + 1
    /\ UNCHANGED <<tasks, previousTasks, storedIds, scheduledTaskIds, nextId, updates,
                   cvars, cancelMatches, failures>>
    /\ lastUpdate' = NoUpdate

\* initializeNotifications: refreshPendingNotifications and
\* scheduleCheckInReminders return, scheduleTaskReminders starts.
RefreshStep ==
    \E k \in 1..Len(procs) :
        /\ procs[k].pc = "refresh"
        /\ procs' = ReplaceAt(procs, k, startSweep(procs[k].ts, lastSmartSchedule))
        /\ UNCHANGED <<clock, tasks, previousTasks, storedIds, scheduledTaskIds,
                       overdueReminderCounts, lastSmartSchedule, lastReset, sink,
                       nextId, updates, ticks, submittedOverdue,
                       cvars, cancelMatches, failures>>
        /\ lastUpdate' = NoUpdate

\* scheduleSmartTaskNotifications: one cancelNotificationsByType returns;
\* after the last one the schedules are computed and the loop runs.
CancelByTypeStep ==
    \E k \in 1..Len(procs) :
        LET p == procs[k]
        IN  /\ p.pc = "cancelByType"
            /\ sink' = sinkCancelByType(sink, SweepCancelTypes[p.i], cancelMatches)
            /\ IF p.i < Len(SweepCancelTypes)
               THEN /\ procs' = [procs EXCEPT ![k].i = p.i + 1]
                    /\ UNCHANGED <<scheduledTaskIds, overdueReminderCounts,
                                   lastSmartSchedule>>
               ELSE LET schedules == calculateAllNotificationSchedules(
                                         p.ts, DProfile, overdueReminderCounts,
                                         getUserPreferences, clock)
                    IN  \E st \in {smartLoop(flatten(schedules, 1, 1), 1,
                                              [keys |-> scheduledTaskIds,
                                               counts |-> overdueReminderCounts,
                                               all |-> <<>>])} :
                            /\ scheduledTaskIds' = st.keys
                            /\ overdueReminderCounts' = st.counts
                            /\ IF st.all = <<>>
                               THEN /\ lastSmartSchedule' = p.key
                                    /\ procs' = ReplaceAt(procs, k, <<>>)
                               ELSE /\ UNCHANGED lastSmartSchedule
                                    /\ procs' = [procs EXCEPT ![k].pc = "submit",
                                                              ![k].notifs = st.all]
            /\ UNCHANGED <<clock, tasks, previousTasks, storedIds, lastReset,
                           nextId, updates, ticks, submittedOverdue,
                           cvars, cancelMatches, failures>>
            /\ lastUpdate' = NoUpdate

\* the overdue notifications among items, counted per task
RECURSIVE countOverdue(_, _, _)
countOverdue(items, i, acc) ==
    IF i > Len(items) THEN acc
    ELSE countOverdue(items, i + 1,
             IF items[i].notif.type = "overdue"
             THEN [acc EXCEPT ![items[i].taskId] = @ + 1] ELSE acc)

\* scheduleSmartTaskNotifications: scheduleMultipleNotifications returns.
SubmitStep ==
    \E k \in 1..Len(procs) :
        LET p == procs[k]
        IN  /\ p.pc = "submit"
            /\ sink' = sink \cup
                   {Pending(nextId + j - 1, p.notifs[j].taskId, p.notifs[j].notif.type,
                            p.notifs[j].notif.time, "sweep") : j \in 1..Len(p.notifs)}
            /\ nextId' = nextId + Len(p.notifs)
            /\ submittedOverdue' = countOverdue(p.notifs, 1, submittedOverdue)
            /\ lastSmartSchedule' = p.key
            /\ procs' = ReplaceAt(procs, k, <<>>)
            /\ UNCHANGED <<clock, tasks, previousTasks, storedIds, scheduledTaskIds,
                           overdueReminderCounts, lastReset, updates, ticks,
                           cvars, cancelMatches, failures>>
            /\ lastUpdate' = NoUpdate

\* cancelTaskNotifications: one cancelNotification returns; after the last
\* one the stored ids are removed and the caller goes on.
CancelStep ==
    \E k \in 1..Len(procs) :
        LET p == procs[k]
        IN  /\ p.pc = "cancelling"
            /\ sink' = sinkCancel(sink, p.cur)
            /\ IF p.ids # <<>>
               THEN /\ procs' = [procs EXCEPT ![k].cur = Head(p.ids),
                                              ![k].ids = Tail(p.ids)]
                    /\ UNCHANGED <<storedIds, scheduledTaskIds>>
               ELSE /\ storedIds' = [storedIds EXCEPT ![p.task.id] = <<>>]
                    /\ scheduledTaskIds' = scheduledTaskIds \ {IdEntry(p.task.id)}
                    /\ procs' = ReplaceAt(procs, k,
                           afterCancel(p.kind, p.task, overdueReminderCounts, clock))
            /\ UNCHANGED <<clock, tasks, previousTasks, overdueReminderCounts,
                           lastSmartSchedule, lastReset, nextId, updates, ticks,
                           submittedOverdue,
                           cvars, cancelMatches, failures>>
            /\ lastUpdate' = NoUpdate

\* scheduleTaskNotifications: one scheduleNotification returns its handle;
\* after the last one the handles are stored.
ScheduleStep ==
    \E k \in 1..Len(procs) :
        LET p   == procs[k]
            got == Append(p.got, nextId)
        IN  /\ p.pc = "scheduling"
            /\ sink' = sinkSchedule(sink, nextId, p.task.id, p.notifs[p.i], "task")
            /\ nextId' = nextId + 1
            /\ submittedOverdue' =
                   IF p.notifs[p.i].type = "overdue"
                   THEN [submittedOverdue EXCEPT ![p.task.id] = @ + 1]
                   ELSE submittedOverdue
            /\ IF p.i < Len(p.notifs)
               THEN /\ procs' = [procs EXCEPT ![k].i = p.i + 1, ![k].got = got]
                    /\ UNCHANGED <<storedIds, scheduledTaskIds>>
               ELSE /\ storedIds' = [storedIds EXCEPT ![p.task.id] = got]
                    /\ scheduledTaskIds' = scheduledTaskIds \cup {IdEntry(p.task.id)}
                    /\ procs' = ReplaceAt(procs, k, <<>>)
            /\ UNCHANGED <<clock, tasks, previousTasks, overdueReminderCounts,
                           lastSmartSchedule, lastReset, updates, ticks,
                           cvars, cancelMatches, failures>>
            /\ lastUpdate' = NoUpdate

DispNext ==
    \/ TaskUpdate \/ Tick \/ RefreshStep \/ CancelByTypeStep \/ SubmitStep
    \/ CancelStep \/ ScheduleStep

CalcNext == Invoke \/ Reinvoke \/ InvokeAll \/ InvokeLead

Spec     == Init /\ [][DispNext]_vars
SpecCalc == CalcInit /\ [][CalcNext]_vars

------------------------------------------------------------------------------
(* Sink failures.  The delivery sink is known by its interface only: a     *)
(* call of schedule or cancel may throw, and schedule may return null      *)
(* instead of a handle (scheduleTaskNotifications tests id !== null).      *)

\* Two tasks due today at 15:00, with a 2-hour reminder and a final
\* reminder ahead: both in the list under the same title, or the second alone.
FailTask(id, title) ==
    [DBase(id) EXCEPT !.title = title, !.due_date = At(Today, 15, 0)]
FailLists ==
    {[id \in S |-> FailTask(id, title)] :
        S \in {{"t1", "t2"}, {"t2"}}, title \in {"a", "b"}}

\* the sink failed the call (cancel, schedule, or schedule answered null)
\* made for notification i of the task in render number pass
Failure(call, id, i, pass) == [call |-> call, id |-> id, i |-> i, pass |-> pass]

MaxFailures == 1

\* a rejection that ends every per-task call in flight
rejectedAll(ps, k) == SelectSeq(ps, LAMBDA p : p.kind = "sweep")

\* Call k has been rejected.  The effect calls rescheduleTaskNotifications
\* and cancelTaskNotifications without await and without a handler: the
\* rejection ends this call and no other.
rejected(ps, k) == ReplaceAt(ps, k, <<>>)

\* a render once the calls of the one before have ended
FailUpdate ==
    /\ procs = <<>>
    /\ failures' = failures
    /\ TaskUpdateFrom(FailLists)

\* cancelTaskNotifications: cancelNotification throws.
CancelFails ==
    \E k \in 1..Len(procs) :
        /\ procs[k].pc = "cancelling"
        /\ Cardinality(failures) < MaxFailures
        /\ failures' = failures \cup
               {Failure("cancel", procs[k].task.id, 0, updates)}
        /\ procs' = rejected(procs, k)
        /\ lastUpdate' = NoUpdate
        /\ UNCHANGED <<clock, tasks, previousTasks, storedIds, scheduledTaskIds,
                       overdueReminderCounts, lastSmartSchedule, lastReset, sink,
                       nextId, updates, ticks, submittedOverdue,
                       cvars, cancelMatches>>

\* scheduleTaskNotifications: scheduleNotification throws.
ScheduleFails ==
    \E k \in 1..Len(procs) :
        /\ procs[k].pc = "scheduling"
        /\ Cardinality(failures) < MaxFailures
        /\ failures' = failures \cup
               {Failure("schedule", procs[k].task.id, procs[k].i, updates)}
        /\ procs' = rejected(procs, k)
        /\ lastUpdate' = NoUpdate
        /\ UNCHANGED <<clock, tasks, previousTasks, storedIds, scheduledTaskIds,
                       overdueReminderCounts, lastSmartSchedule, lastReset, sink,
                       nextId, updates, ticks, submittedOverdue,
                       cvars, cancelMatches>>

\* scheduleTaskNotifications: scheduleNotification returns null; the loop
\* goes on without the handle, and after the last one the handles are stored.
ScheduleNoHandle ==
    \E k \in 1..Len(procs) :
        LET p == procs[k]
        IN  /\ p.pc = "scheduling"
            /\ Cardinality(failures) < MaxFailures
            /\ failures' = failures \cup {Failure("null", p.task.id, p.i, updates)}
            /\ IF p.i < Len(p.notifs)
               THEN /\ procs' = [procs EXCEPT ![k].i = p.i + 1]
                    /\ UNCHANGED <<storedIds, scheduledTaskIds>>
               ELSE /\ storedIds' = [storedIds EXCEPT ![p.task.id] = p.got]
                    /\ scheduledTaskIds' = scheduledTaskIds \cup {IdEntry(p.task.id)}
                    /\ procs' = ReplaceAt(procs, k, <<>>)
            /\ lastUpdate' = NoUpdate
            /\ UNCHANGED <<clock, tasks, previousTasks, overdueReminderCounts,
                           lastSmartSchedule, lastReset, sink, nextId, updates,
                           ticks, submittedOverdue, cvars, cancelMatches>>

FailNext ==
    \/ FailUpdate \/ RefreshStep \/ CancelByTypeStep \/ SubmitStep
    \/ CancelStep \/ ScheduleStep
    \/ CancelFails \/ ScheduleFails \/ ScheduleNoHandle

\* which field cancelAllOfType compares makes no difference to the per-task calls
FailInit == InitWith("type")
SpecFail == FailInit /\ [][FailNext]_vars

-----------------------------------------------------------------------------
(* Dispatcher claims *)

\* no rescheduleTaskNotifications / cancelTaskNotifications call is in flight
ReschedulesFinished ==
    \A k \in 1..Len(procs) : procs[k].kind \notin {"reschedule", "cancel"}
\* no call of the dispatcher is in flight
Quiescent == procs = <<>>
PendingFor(id) == {n \in sink : n.taskId = id}
Handles(ids) == {ids[i] : i \in 1..Len(ids)}

\* C2: the sink never holds two pending notifications with the same task
\* id, type and scheduled time.
C2_NoDuplicates ==
    \A m, n \in sink :
        (m.taskId = n.taskId /\ m.type = n.type /\ m.scheduleAt = n.scheduleAt)
            => m.id = n.id

\* C3: once all reschedules have finished, every pending handle that the
\* per-task path dispatched is listed in the stored mapping of its task.
C3_MappingExact ==
    ReschedulesFinished =>
        \A n \in sink : n.via = "task" => n.id \in Handles(storedIds[n.taskId])

\* C4: once the dispatcher has processed the updates, no notification is
\* pending for a task id that is no longer in the task list.
C4_DeletedCancelled ==
    Quiescent => \A id \in TaskIds \ DOMAIN tasks : PendingFor(id) = {}

\* C5: once the dispatcher has processed the updates, no notification is
\* pending for a task whose status is completed.
C5_CompletedCancelled ==
    Quiescent =>
        \A id \in DOMAIN tasks :
            tasks[id].status = "completed" => PendingFor(id) = {}

\* C10: within one calendar day at most 3 overdue notifications are
\* submitted for a high-priority overdue task, and its overdue counter is
\* at most 3.
C10_OverdueLimit ==
    \A id \in DOMAIN tasks :
        (tasks[id].priority = "high" /\ tasks[id].status # "completed"
            /\ tasks[id].due_date \div DayMs < clock \div DayMs)
        => /\ submittedOverdue[id] <= 3
           /\ overdueReminderCounts[id] <= 3

\* the six fields of a task that decide its schedule
SixFields(t) ==
    <<t.due_date, t.priority, t.status, t.estimated_duration, t.category, t.title>>
Called(kind, id) == [kind |-> kind, id |-> id] \in lastUpdate.calls
HadSnapshot(id) == id \in DOMAIN lastUpdate.prev

\* C20: a task-list update calls rescheduleTaskNotifications for a task of
\* the list iff the task has no previous snapshot or one of its six fields
\* differs from the snapshot; a task with all six unchanged gets no
\* per-task cancel or reschedule.
C20_Trigger ==
    lastUpdate.set =>
        \A id \in TaskIds :
            /\ id \in DOMAIN tasks =>
                  (Called("reschedule", id) <=>
                      (~HadSnapshot(id)
                         \/ SixFields(lastUpdate.prev[id]) # SixFields(tasks[id])))
            /\ (id \in DOMAIN tasks /\ HadSnapshot(id)
                  /\ SixFields(lastUpdate.prev[id]) = SixFields(tasks[id]))
                  => ~Called("reschedule", id) /\ ~Called("cancel", id)
            /\ id \notin DOMAIN tasks => ~Called("reschedule", id)

\* an update in which only the title of the task changed
C20_Witness ==
    /\ lastUpdate.set /\ "t1" \in DOMAIN tasks /\ HadSnapshot("t1")
    /\ lastUpdate.prev["t1"].title # tasks["t1"].title
    /\ [lastUpdate.prev["t1"] EXCEPT !.title = tasks["t1"].title] = tasks["t1"]
    /\ Called("reschedule", "t1")

-----------------------------------------------------------------------------
(* Engine claims that refer to the default preferences and the batch layer *)

C17_Case ==
    /\ Live /\ cin.task.priority = "medium"
    /\ cin.task.due_date = At(Today + 1, 0, 0)
    /\ cin.preferences = DEFAULT_NOTIFICATION_PREFERENCES
C17_OneAtNine ==
    /\ Len(cout) = 1
    /\ cout[1].type = "reminder"
    /\ cout[1].time = At(Today + 1, 9, 0)

Multipliers == {2, 4, 6, 8}
\* the number of notifications for the inputs of cin with multiplier q / 4
CountWith(q) ==
    Len(calculateNotificationSchedule(cin.task, cin.profile,
            cin.existingOverdueReminders, [cin.preferences EXCEPT !.fmQ = q],
            cin.now, cin.now))
Monotone ==
    \A q \in Multipliers :
        /\ q <= cin.preferences.fmQ => CountWith(q) <= Len(cout)
        /\ q >= cin.preferences.fmQ => CountWith(q) >= Len(cout)

DoneAll == cpc = "doneAll"
\* the schedule of the i-th input task on its own
Single(i) ==
    calculateNotificationSchedule(cin.tasks[i], cin.profile,
        IF cin.tasks[i].id \in DOMAIN cin.counts THEN cin.counts[cin.tasks[i].id] ELSE 0,
        cin.preferences, cin.now, cin.now)
\* the positions of the input tasks that are not completed and have a
\* non-empty schedule
Kept == {i \in 1..Len(cin.tasks) :
            cin.tasks[i].status # "completed" /\ Single(i) # <<>>}
\* the k-th position, in input order, of the set kept
KeptAt(kept, k) == CHOOSE i \in kept : Cardinality({j \in kept : j <= i}) = k

\* C19: the batch returns, in input order, exactly one schedule for each
\* input task that is not completed and whose own schedule (with its count,
\* or 0 when it has none) is non-empty; no returned schedule is empty or
\* belongs to a completed task.
C19_Batch ==
    DoneAll =>
        LET kept == Kept
        IN  /\ Len(cout) = Cardinality(kept)
            /\ \A k \in 1..Len(cout) :
                  LET i == KeptAt(kept, k)
                  IN  /\ cout[k].taskId = cin.tasks[i].id
                      /\ cout[k].taskTitle = cin.tasks[i].title
                      /\ cout[k].notifications = Single(i)
                      /\ cout[k].notifications # <<>>
                      /\ \A n \in 1..Len(cin.tasks) :
                            cin.tasks[n].id = cout[k].taskId
                                => cin.tasks[n].status # "completed"

\* three tasks: t2 overdue without a count, t3 overdue with count 3, t1
\* with reminders ahead; t2 and t1 get a schedule, in this order
C19_Witness ==
    /\ DoneAll /\ Len(cin.tasks) = 3
    /\ cin.tasks[1].id = "t2" /\ cin.tasks[1].due_date = At(Today - 1, 15, 0)
    /\ cin.tasks[2].id = "t3" /\ cin.tasks[2].due_date = At(Today - 1, 15, 0)
    /\ cin.tasks[3].id = "t1" /\ cin.tasks[3].due_date = At(Today + 1, 15, 0)
    /\ DOMAIN cin.counts = {"t3"} /\ cin.counts["t3"] = MaxCount
    /\ Len(cout) = 2 /\ cout[1].taskId = "t2" /\ cout[2].taskId = "t1"

DoneLead == cpc = "doneLead"
\* the lead time the claim gives for m minutes
C23_Expected(m) ==
    IF m = NULL THEN 15
    ELSE IF m >= 120 THEN 30
    ELSE IF m >= 60 THEN 20
    ELSE IF m <= 30 THEN 10
    ELSE 15

\* C23: getLeadTimeForDuration returns 30 from 120 minutes on, 20 from 60
\* to 119, 10 up to 30 (0 included), 15 between 31 and 59 and for a missing
\* duration; over defined durations it is non-decreasing.
C23_LeadTime ==
    DoneLead =>
        /\ cout = C23_Expected(cin.durationMinutes)
        /\ cin.durationMinutes # NULL =>
              \A m \in 0..cin.durationMinutes : getLeadTimeForDuration(m) <= cout

DateOnly == cin.task.due_date # NULL /\ ~hasSpecificTime(cin.task.due_date)
\* 09:00 today when now is before it, else 09:00 tomorrow
NextNine ==
    IF At(cin.now \div DayMs, 9, 0) > cin.now
    THEN At(cin.now \div DayMs, 9, 0) ELSE At(cin.now \div DayMs + 1, 9, 0)
\* The candidate times of the task of cin before any work-hours adjustment.
Unadjusted ==
    LET due == cin.task.due_date
        day == due \div DayMs
    IN  IF due = NULL THEN {At(cin.now \div DayMs + 1, C7_PeakStart, 0)}
        ELSE IF DueBeforeToday THEN {C8_Candidate, NextNine}
        ELSE IF hasSpecificTime(due)
        THEN {due - 24 * HourMs, due - 6 * HourMs, due - 2 * HourMs,
              due - getLeadTimeForDuration(cin.task.estimated_duration) * MinuteMs,
              due - 15 * MinuteMs}
        ELSE {At(day, 9, 0), At(day, 14, 0), At(day, 18, 0), At(day - 1, 9, 0)}

\* C24: for a task that is not a work task, and for a task with a date-only
\* due date, every returned time is an unadjusted candidate time, whatever
\* the work hours.
C24_Unadjusted ==
    (Live /\ (cin.task.category # "work" \/ DateOnly)) =>
        \A i \in 1..Len(cout) : cout[i].time \in Unadjusted

\* the half of C24 about tasks that are not work tasks
C24_NonWork ==
    (Live /\ cin.task.category # "work") =>
        \A i \in 1..Len(cout) : cout[i].time \in Unadjusted

HighDateOnly ==
    /\ Live /\ cin.task.priority = "high" /\ Enabled("high")
    /\ DateOnly /\ ~DueBeforeToday

\* The four candidates of the claim: 09:00, 14:00 and 18:00 on the due
\* date and 09:00 on the day before, with the type of each and whether the
\* multiplier and the due date admit it.
C25_Candidates ==
    LET day == cin.task.due_date \div DayMs
        all == cin.preferences.fmQ > 2
    IN  <<[time |-> At(day, 9, 0),  type |-> "reminder", on |-> TRUE],
          [time |-> At(day, 14, 0), type |-> "reminder", on |-> all],
          [time |-> At(day, 18, 0), type |-> "reminder", on |-> all],
          [time |-> At(day - 1, 9, 0), type |-> "advance-notice",
           on |-> all /\ day # cin.now \div DayMs]>>
C25_Placed(k) ==
    [time |-> IF cin.task.category = "work"
              THEN adjustToWorkHours(C25_Candidates[k].time, cin.profile, TRUE)
              ELSE C25_Candidates[k].time,
     type |-> C25_Candidates[k].type]
C25_Emitted(k) ==
    /\ C25_Candidates[k].on
    /\ C25_Candidates[k].time > cin.now
    /\ ~QuietNow(MinuteOfDay(C25_Placed(k).time))
    /\ C25_Placed(k).time > LeadLimit

\* C25: a live, enabled, non-overdue high-priority task with a date-only
\* due date gets exactly the reminders at 09:00, 14:00 and 18:00 on the due
\* date (09:00 alone at multiplier 0.5) and the advance notice at 09:00 the
\* day before (multiplier > 0.5, due date not today) that are after now and
\* pass the admission gate, each as often as it passes.
C25_HighDateOnly ==
    HighDateOnly =>
        /\ Len(cout) = Cardinality({k \in 1..4 : C25_Emitted(k)})
        /\ \A k \in 1..4 : C25_Emitted(k) =>
              Cardinality({i \in 1..Len(cout) :
                              [time |-> cout[i].time, type |-> cout[i].type] = C25_Placed(k)})
                = Cardinality({j \in 1..4 : C25_Emitted(j) /\ C25_Placed(j) = C25_Placed(k)})

\* due tomorrow, now 08:30: the advance notice today at 09:00 and the three
\* reminders tomorrow
C25_Witness ==
    /\ HighDateOnly /\ cin.task.category = "personal"
    /\ cin.task.due_date = At(Today + 1, 0, 0) /\ cin.now = At(Today, 8, 30)
    /\ cin.preferences.fmQ = 4
    /\ Len(cout) = 4
    /\ cout[1].type = "advance-notice" /\ cout[1].time = At(Today, 9, 0)
    /\ cout[2].time = At(Today + 1, 9, 0)
    /\ cout[3].time = At(Today + 1, 14, 0)
    /\ cout[4].time = At(Today + 1, 18, 0)

OverdueMedium ==
    /\ Live /\ cin.task.priority = "medium" /\ Enabled("medium") /\ DueBeforeToday

\* C26: a live medium-priority task due before today gets exactly one
\* notification, of type overdue, at 09:00 today when now is before 09:00
\* and at 09:00 tomorrow otherwise, for every now and every minimumLeadTime.
C26_OverdueMedium ==
    OverdueMedium =>
        /\ Len(cout) = 1
        /\ cout[1].type = "overdue"
        /\ cout[1].time = NextNine

\* now 08:30, minimumLeadTime 60, not a work task: nothing is returned
C26_Dropped ==
    /\ OverdueMedium /\ cin.task.category = "personal"
    /\ cin.now = At(Today, 8, 30) /\ cin.preferences.minimumLeadTime = 60
    /\ cout = <<>>

\* due today, at or before now (a date-only task is due at midnight)
DueToday ==
    /\ cin.task.due_date # NULL
    /\ cin.task.due_date \div DayMs = cin.now \div DayMs
    /\ cin.task.due_date <= cin.now

\* due today at a specific time that now has reached or passed
DueTimePassed == DueToday /\ hasSpecificTime(cin.task.due_date)

C28_DateOnlyToday ==
    /\ Live /\ DueToday /\ ~hasSpecificTime(cin.task.due_date)
    /\ cin.task.priority = "high" /\ Enabled("high")
    /\ cin.now = At(Today, 8, 30)
    /\ Len(cout) > 0
    /\ \A i \in 1..Len(cout) : cout[i].type = "reminder"

\* a live task with a specific due time that is not due before today
SpecificNotOverdue ==
    /\ Live /\ cin.task.due_date # NULL
    /\ hasSpecificTime(cin.task.due_date) /\ ~DueBeforeToday

\* C29: every notification returned for a task with a specific due time that
\* is not overdue has a time strictly earlier than the due time.
C29_BeforeDue ==
    Done =>
        (SpecificNotOverdue =>
            \A i \in 1..Len(cout) : cout[i].time < cin.task.due_date)

\* a notification at or after the due time
C29_Late ==
    /\ SpecificNotOverdue
    /\ \E i \in 1..Len(cout) : cout[i].time >= cin.task.due_date

\* C29 restricted to tasks that are not work tasks
C29_NonWork ==
    Done =>
        ((SpecificNotOverdue /\ cin.task.category # "work") =>
            \A i \in 1..Len(cout) : cout[i].time < cin.task.due_date)

\* C30: no two notifications of one returned schedule have the same time.
C30_DistinctTimes ==
    Done =>
        \A i, j \in 1..Len(cout) : i # j => cout[i].time # cout[j].time

\* two notifications of one schedule at the same time
C30_Collision ==
    /\ Done
    /\ \E i, j \in 1..Len(cout) : i # j /\ cout[i].time = cout[j].time

\* C30 restricted to tasks that are not work tasks
C30_NonWork ==
    Done =>
        (cin.task.category # "work" =>
            \A i, j \in 1..Len(cout) : i # j => cout[i].time # cout[j].time)

------------------------------------------------------------------------------
(* Dispatcher claims about the periodic sweep.                             *)

\* the step is a run of runBackgroundCheck (on a render or on the interval)
BackgroundCheck == ticks' # ticks \/ updates' # updates

\* the sweep a background check has started is at its first await
SweepAtStart(ps) ==
    \E k \in 1..Len(ps) :
        ps[k].kind = "sweep" /\ ps[k].pc = "cancelByType" /\ ps[k].i = 1

NoCounts == [id \in TaskIds |-> 0]

\* C21: a background check on a calendar day other than the recorded
\* last-reset day sets every overdue reminder counter to zero and records the
\* day, before its sweep has computed any schedule; a check on the recorded
\* day leaves the counters as they are.
C21_DailyReset ==
    [][BackgroundCheck =>
          /\ lastReset' = toDateString(clock')
          /\ overdueReminderCounts' =
                 IF lastReset # toDateString(clock') THEN NoCounts
                 ELSE overdueReminderCounts
          /\ SweepAtStart(procs')]_vars

\* the interval check of the next day has just run: a sweep of the day
\* before had counted an overdue notification, and the counters are zero
C21_Witness ==
    /\ ticks = 1 /\ toDateString(clock) = Today + 1
    /\ lastReset = Today + 1
    /\ \E key \in scheduledTaskIds : key[2] = "overdue"
    /\ overdueReminderCounts = NoCounts
    /\ SweepAtStart(procs)

\* the interval check an hour later on the same day has just run: the
\* counter is kept
C21_KeptSameDay ==
    /\ ticks = 1 /\ toDateString(clock) = Today /\ lastReset = Today
    /\ \E id \in TaskIds : overdueReminderCounts[id] > 0
    /\ SweepAtStart(procs)

\* The interval sweep has run to its end after the only task-list update:
\* Tick starts it when no call is in flight, and no update has followed.
PeriodicSweepDone ==
    /\ Quiescent /\ updates = 1 /\ ticks >= 1
    /\ lastSmartSchedule = scheduleKey(TaskSeq(tasks, 1))

\* the notification is pending at the sink for the task
PendingAs(id, notif) ==
    \E n \in sink :
        n.taskId = id /\ n.type = notif.type /\ n.scheduleAt = notif.time

\* the tasks whose schedule does not depend on the overdue counters
NotYetOverdue(id) ==
    /\ tasks[id].status # "completed"
    /\ tasks[id].due_date # NULL
    /\ tasks[id].due_date \div DayMs >= clock \div DayMs

\* C27: once the periodic sweep has completed with no concurrent task change,
\* every notification of the schedule computed at that time for a task that
\* is not completed (and not overdue, so that the schedule is the same for
\* every counter value) is pending at the sink.
C27_SweepResubmits ==
    PeriodicSweepDone =>
        \A id \in DOMAIN tasks :
            NotYetOverdue(id) =>
                LET fresh == taskSchedule(tasks[id], overdueReminderCounts, clock)
                IN  \A i \in 1..Len(fresh) : PendingAs(id, fresh[i])

\* the sweep is over and a notification of the schedule is recorded as
\* scheduled but is not pending
C27_Skipped ==
    /\ PeriodicSweepDone
    /\ \E id \in DOMAIN tasks :
          /\ NotYetOverdue(id)
          /\ LET fresh == taskSchedule(tasks[id], overdueReminderCounts, clock)
             IN  \E i \in 1..Len(fresh) :
                     /\ notifKey(id, fresh[i]) \in scheduledTaskIds
                     /\ ~PendingAs(id, fresh[i])

------------------------------------------------------------------------------
(* Dispatcher claims about failures of the delivery sink.                  *)

\* every call of the renders so far has ended
PassDone == procs = <<>> /\ updates > 0
\* the failures of the sink on calls for the task
FailuresOf(id) == {f \in failures : f.id = id}
\* the sink threw on a call for the task in the last render
ThrownNow(id) ==
    \E f \in FailuresOf(id) : f.pass = updates /\ f.call # "null"
\* the schedule calls of the last render for the task that returned null
NullsNow(id) == {f \in FailuresOf(id) : f.pass = updates /\ f.call = "null"}
\* the schedule of the task, which does not depend on the overdue counter
FreshSchedule(id) == taskSchedule(tasks[id], overdueReminderCounts, clock)
\* no handle of the per-task path is pending for the task but the stored ones
OldHandlesCancelled(id) ==
    \A n \in PendingFor(id) : n.via = "task" => n.id \in Handles(storedIds[id])

\* C22: when the calls of a render have ended, a task of the list on whose
\* calls the sink never failed has been cancelled and scheduled in full,
\* whatever the sink did to the calls of the other task; and a task for
\* which schedule calls of the last render returned null, none throwing, has
\* had every other notification submitted and its handle stored.
C22_Independent ==
    PassDone =>
        \A id \in DOMAIN tasks :
            /\ FailuresOf(id) = {} =>
                  /\ IdEntry(id) \in scheduledTaskIds
                  /\ Len(storedIds[id]) = Len(FreshSchedule(id))
                  /\ OldHandlesCancelled(id)
            /\ (NullsNow(id) # {} /\ ~ThrownNow(id)) =>
                  /\ IdEntry(id) \in scheduledTaskIds
                  /\ Len(storedIds[id]) =
                         Len(FreshSchedule(id)) - Cardinality(NullsNow(id))

\* the second render changed both titles; the cancel for t1 threw, and t2
\* has been cancelled and scheduled again
C22_Witness ==
    /\ PassDone /\ updates = 2
    /\ Failure("cancel", "t1", 0, 2) \in failures
    /\ "t2" \in DOMAIN tasks /\ FailuresOf("t2") = {}
    /\ IdEntry("t2") \in scheduledTaskIds
    /\ Len(storedIds["t2"]) = 2
    /\ OldHandlesCancelled("t2")

\* the first schedule call for t1 returned null and the second one stored
\* its handle
C22_NullThenHandle ==
    /\ PassDone /\ updates = 1
    /\ failures = {Failure("null", "t1", 1, 1)}
    /\ Len(storedIds["t1"]) = 1
    /\ \E n \in PendingFor("t1") :
          n.via = "task" /\ n.id = storedIds["t1"][1] /\ n.type = "final-reminder"

=============================================================================
